---- MODULE Spec2Model ----
(***************************************************************************)
(* Shopify product migration: the orchestrator migrate_products (main.py)  *)
(* driving two ShopifyClient instances (shopify_client.py), one for the    *)
(* source store and one for the destination store.                         *)
(*                                                                         *)
(* JSON objects (Python dicts) are functions from key strings to values;   *)
(* a key that is absent from the dict is absent from the DOMAIN.  JSON     *)
(* lists are sequences.  Every client call the orchestrator awaits is      *)
(* appended to `calls` together with its outcome, in program order.        *)
(***************************************************************************)
EXTENDS Integers, Sequences, FiniteSets, TLC

VARIABLES
    pc,                  \* position of migrate_products
    src_store,           \* products.json listing of the source store
    src_member,          \* per listed source product: its source collections
    source_products,     \* main.py:32
    i,                   \* index of the for loop of main.py:58 (1-based)
    created_count, updated_count, skipped_count, error_count, collection_count,
    product_collections, \* main.py:56, an insertion-ordered dict as a sequence of pairs
    j, k,                \* indices of the loops of main.py:124 and main.py:125
    dest_products,       \* products.json listing of the destination store
    dest_collections,    \* custom_collections.json listing of the destination store
    dest_collects,       \* collects of the destination store
    next_id,             \* next identifier the destination store assigns
    warned,              \* the warning of main.py:167-168 was emitted
    calls,               \* client calls awaited so far, with their outcomes
    cl_input,            \* client-level run: the product handed to create/update
    cl_sent,             \* client-level run: the request bodies sent so far
    returned             \* client-level run: the read call made and its outcome

vars == <<pc, src_store, src_member, source_products, i, created_count,
          updated_count, skipped_count, error_count, collection_count,
          product_collections, j, k, dest_products, dest_collections,
          dest_collects, next_id, warned, calls, cl_input, cl_sent,
          returned>>

(***************************************************************************)
(* Bounds of the model.                                                    *)
(***************************************************************************)
MaxProducts == 2
MaxFailures == 2

(***************************************************************************)
(* Python values.                                                          *)
(***************************************************************************)
PyNone == "<None>"

\* dict.get(key, default)
Get(d, key, default) == IF key \in DOMAIN d THEN d[key] ELSE default

\* {k: v for k, v in d.items() if k in keys}
Restrict(d, keys) == [key \in (DOMAIN d) \cap keys |-> d[key]]

\* for key in keys: d.pop(key, None)
PopAll(d, keys) == [key \in (DOMAIN d) \ keys |-> d[key]]

\* A string value, and the dict main.py:132-136 builds, as title values.  Python
\* compares a dict with a string as unequal, and two dicts by their items.
TitleStr(s) == [kind |-> "str", s |-> s, body |-> "", published |-> TRUE]
TitleDict(d) == [kind |-> "dict", s |-> d["title"].s, body |-> d["body_html"],
                 published |-> d["published"]]

(***************************************************************************)
(* ShopifyClient._prepare_product_data (shopify_client.py:245-291).        *)
(***************************************************************************)
allowed_fields ==
    {"title", "body_html", "vendor", "product_type", "handle",
     "status", "variants", "images", "options"}

\* The list without the variant's own identifier.
keys_to_remove_without_id ==
    {"admin_graphql_api_id", "product_id", "image_id",
     "inventory_item_id", "old_inventory_quantity", "requires_shipping"}

keys_to_remove ==
    {"admin_graphql_api_id", "product_id", "id", "image_id",
     "inventory_item_id", "old_inventory_quantity", "requires_shipping"}

\* shopify_client.py:268-272; the pops act on the caller's variant dicts
CleanVariant(variant) == PopAll(variant, keys_to_remove)

\* shopify_client.py:268
CleanVariants(variants_) == [n \in 1..Len(variants_) |-> CleanVariant(variants_[n])]

\* shopify_client.py:282-285
CleanImage(image) ==
    [key \in {"src", "alt"} |->
        IF key = "src" THEN image["src"] ELSE Get(image, "alt", "")]

\* shopify_client.py:278-288
CleanImages(images) ==
    LET kept == SelectSeq(images, LAMBDA image : "src" \in DOMAIN image)
    IN  [n \in 1..Len(kept) |-> CleanImage(kept[n])]

_prepare_product_data(product_data) ==
    LET cleaned_data == Restrict(product_data, allowed_fields)
        with_variants ==
            IF "variants" \in DOMAIN cleaned_data
            THEN [cleaned_data EXCEPT !["variants"] = CleanVariants(@)]
            ELSE cleaned_data
    IN  IF "images" \in DOMAIN with_variants
        THEN [with_variants EXCEPT !["images"] = CleanImages(@)]
        ELSE with_variants

\* The caller's product after _prepare_product_data ran on it: the top-level
\* dict is copied (shopify_client.py:262) but the variant dicts are shared, so
\* variant.pop (shopify_client.py:272) removes the keys from the caller's
\* variants as well.
AfterPrepare(product_data) ==
    IF "variants" \in DOMAIN product_data
    THEN [product_data EXCEPT !["variants"] = CleanVariants(@)]
    ELSE product_data

(***************************************************************************)
(* The data of the runs: what the two stores hold when the run starts.     *)
(***************************************************************************)
Variant(sku) == [id |-> 900, product_id |-> 100, sku |-> sku]

\* The shapes of the entries of the source listing.  A listed entry gets its
\* identifier from its position; "noid" is an invalid entry (no "id").
SrcShapes ==
    {"one", "two", "novariants", "nokey", "emptysku", "nosku", "nullsku", "noid"}

ShapeVariants(shape) ==
    CASE shape = "one"        -> <<Variant("A")>>
      [] shape = "two"        -> <<Variant("B"), Variant("A")>>
      [] shape = "novariants" -> <<>>
      [] shape = "emptysku"   -> <<Variant(""), Variant("A")>>
      [] shape = "nosku"      -> <<[id |-> 900, product_id |-> 100]>>
      [] shape = "nullsku"    -> <<Variant(PyNone)>>
      [] shape = "noid"       -> <<Variant("A")>>

SrcProduct(shape, n) ==
    LET base == [title |-> "Shirt",
                 options |-> <<[id |-> 500, product_id |-> 100 + n, name |-> "Size"]>>]
        ident == IF shape = "noid" THEN <<>> ELSE [id |-> 100 + n]
        vars_ == IF shape = "nokey" THEN <<>>
                 ELSE [variants |-> ShapeVariants(shape)]
    IN  ident @@ vars_ @@ base

\* custom_collections.json of the source store; two of them share a title and
\* two titles differ in case only.
SrcCollections ==
    << [id |-> 1, title |-> TitleStr("Summer"), body_html |-> "hot"],
       [id |-> 2, title |-> TitleStr("summer")],
       [id |-> 3, title |-> TitleStr("Summer"), body_html |-> "sale",
        published |-> FALSE] >>

\* The collections a listed source product belongs to, as positions of the
\* source collection listing.
MemberCollections(m) == [n \in 1..Len(m) |-> SrcCollections[m[n]]]

\* The entries a source listing is drawn from: a shape and its membership.
SrcEntries ==
    { <<"one", <<>>>>, <<"one", <<1>>>>, <<"one", <<1, 2>>>>, <<"two", <<1, 3>>>>,
      <<"novariants", <<1>>>>, <<"nokey", <<>>>>, <<"emptysku", <<1>>>>,
      <<"nosku", <<>>>>, <<"nullsku", <<>>>>, <<"noid", <<1>>>> }

SrcListings ==
    UNION { [1..n -> SrcEntries] : n \in 0..MaxProducts }

DestProduct(id, skus) ==
    [id |-> id, title |-> "Old",
     variants |-> [n \in 1..Len(skus) |-> Variant(skus[n])]]

\* What the destination store holds when the run starts.
DestStores ==
    { [products |-> <<>>, collections |-> <<>>],
      [products |-> <<DestProduct(42, <<"X", "B">>), DestProduct(43, <<"A">>)>>,
       collections |-> <<[id |-> 7, title |-> TitleStr("Summer"), body_html |-> ""]>>] }

(***************************************************************************)
(* The record of the client calls.                                         *)
(***************************************************************************)
\* One awaited client call: the operation, the store it went to, the loop
\* item it was made for, its arguments, whether it returned (ok) or raised,
\* and what it returned.
Call(op, store, item, arg, ok, res) ==
    [op |-> op, store |-> store, item |-> item, arg |-> arg, ok |-> ok,
     res |-> IF ok THEN res ELSE <<>>]

Failures(log) == Cardinality({n \in DOMAIN log : ~log[n].ok})

\* A step may add the calls `new` when the run stays within MaxFailures
\* failed calls.
WithinFailures(new) == Failures(calls) + Failures(new) <= MaxFailures

(***************************************************************************)
(* ShopifyClient lookups (shopify_client.py).  A lookup returns the        *)
(* position of the entry it found in the listing, 0 for None.              *)
(***************************************************************************)
\* shopify_client.py:103-112: the loop over the entries only logs; the
\* response's list is returned as it came.
get_products(listing) == listing

\* A test of the first variant only.
HasSku_first_only(product, sku) ==
    LET vs == Get(product, "variants", <<>>)
    IN  IF vs = <<>> THEN FALSE ELSE Get(vs[1], "sku", PyNone) = sku

\* shopify_client.py:235-236
HasSku(product, sku) ==
    \E n \in DOMAIN Get(product, "variants", <<>>) :
        Get(product["variants"][n], "sku", PyNone) = sku

\* shopify_client.py:233-240
get_product_by_sku(listing, sku) ==
    LET products == get_products(listing)
        hits == {n \in DOMAIN products : HasSku(products[n], sku)}
    IN  IF hits = {} THEN 0
        ELSE CHOOSE n \in hits : \A m \in hits : n <= m

\* A lookup that compares titles without regard to case.
LowerTitle(title) ==
    IF title.s = "Summer" THEN [title EXCEPT !.s = "summer"] ELSE title

get_collection_by_title_nocase(collections, title) ==
    LET hits == {n \in DOMAIN collections :
                    LowerTitle(collections[n]["title"]) = LowerTitle(title)}
    IN  IF hits = {} THEN 0
        ELSE CHOOSE n \in hits : \A m \in hits : n <= m

\* shopify_client.py:318-322
get_collection_by_title(collections, title) ==
    LET hits == {n \in DOMAIN collections :
                    Get(collections[n], "title", PyNone) = title}
    IN  IF hits = {} THEN 0
        ELSE CHOOSE n \in hits : \A m \in hits : n <= m

(***************************************************************************)
(* migrate_products (main.py:21-172).                                      *)
(***************************************************************************)
Init ==
    /\ pc = "start"
    /\ \E listing \in SrcListings :
         /\ src_store = [n \in DOMAIN listing |-> SrcProduct(listing[n][1], n)]
         /\ src_member = [n \in DOMAIN listing |-> MemberCollections(listing[n][2])]
    /\ \E store \in DestStores :
         /\ dest_products = store.products
         /\ dest_collections = store.collections
    /\ dest_collects = {}
    /\ next_id = 50
    /\ source_products = <<>>
    /\ i = 1 /\ j = 1 /\ k = 1
    /\ created_count = 0 /\ updated_count = 0 /\ skipped_count = 0
    /\ error_count = 0 /\ collection_count = 0
    /\ product_collections = <<>>
    /\ warned = FALSE
    /\ calls = <<>>
    /\ cl_input = <<>>
    /\ cl_sent = <<>>
    /\ returned = <<>>

clientVars == <<cl_input, cl_sent, returned>>

\* A counter whose increment is lost.
Counted_lost(count) == count

\* `count += 1` (main.py:64, 71, 91, 94, 100, 103, 112, 149, 157)
Counted(count) == count + 1
srcVars == <<src_store, src_member>>
countVars == <<created_count, updated_count, skipped_count, error_count,
               collection_count>>
destVars == <<dest_products, dest_collections, dest_collects, next_id>>

\* main.py:32-34 and 170-172: the source listing; its failure is re-raised.
GetSourceProducts ==
    /\ pc = "start"
    /\ calls' = Append(calls, Call("get_products", "source", <<>>, <<>>, TRUE, <<>>))
    /\ source_products' = get_products(src_store)
    /\ pc' = "phase1"
    /\ UNCHANGED <<srcVars, i, j, k, countVars, product_collections, destVars,
                   warned, clientVars>>

\* A handler that logs the listing failure and goes on with no products.
AfterListingError_swallowed == "phase1"

\* main.py:170-172: the handler logs and re-raises.
AfterListingError == "failed"

\* main.py:32 raising into the handler of main.py:170-172
GetSourceProductsFails ==
    /\ pc = "start"
    /\ LET new == <<Call("get_products", "source", <<>>, <<>>, FALSE, <<>>)>>
       IN  /\ WithinFailures(new)
           /\ calls' = calls \o new
    /\ pc' = AfterListingError
    /\ UNCHANGED <<srcVars, source_products, i, j, k, countVars,
                   product_collections, destVars, warned, clientVars>>

\* The product of the current iteration of the loop of main.py:58.
product == source_products[i]

\* main.py:61-62
variants == Get(product, "variants", <<>>)
NoVariants == variants = <<>>

\* A test for None only, which lets the empty string through.
NoSku_none_only == Get(Get(source_products[i], "variants", <<>>)[1], "sku", PyNone) = PyNone

\* main.py:68-69; Python's `not sku` holds of None and of the empty string
sku == Get(variants[1], "sku", PyNone)
NoSku == sku \in {PyNone, ""}

\* main.py:62 and main.py:69: the iteration ends at a `continue`
Skipped == IF NoVariants THEN TRUE ELSE NoSku

InPhase1 == pc = "phase1" /\ i <= Len(source_products)

\* main.py:62-66 and 69-73
Phase1Skip ==
    /\ InPhase1
    /\ Skipped
    /\ skipped_count' = Counted(skipped_count)
    /\ i' = i + 1
    /\ UNCHANGED <<pc, srcVars, source_products, j, k, created_count,
                   updated_count, error_count, collection_count,
                   product_collections, destVars, warned, calls, clientVars>>

\* main.py:76-81: product["id"] raises KeyError before any call when the entry
\* has no id; the handler of main.py:79 then leaves the set empty.
FetchCalls(fetched) ==
    IF "id" \in DOMAIN product
    THEN <<Call("get_product_collections", "source", <<i>>, <<product["id"]>>,
                fetched, <<Len(src_member[i])>>)>>
    ELSE <<>>

\* A fetch whose failure leaves the product's collections in place.
source_collections_kept(fetched) ==
    IF "id" \in DOMAIN product THEN src_member[i] ELSE <<>>

\* main.py:75-81: the fetched list, or [] when the fetch raised.
source_collections(fetched) ==
    IF "id" \in DOMAIN product /\ fetched THEN src_member[i] ELSE <<>>

\* Whether the fetch outcome is one the iteration can have.
FetchOutcome(fetched) == "id" \in DOMAIN product \/ fetched

LookupCall(ok) ==
    LET e == get_product_by_sku(dest_products, sku)
    IN  Call("get_product_by_sku", "destination", <<i>>, <<sku>>, ok,
             IF e = 0 THEN <<>> ELSE <<dest_products[e]["id"]>>)

\* A failed lookup taken for "no such product": the product is created.
AfterLookupError_create ==
    <<Call("create_product", "destination", <<i>>,
           <<_prepare_product_data(product)>>, TRUE, <<next_id>>)>>

\* main.py:83 raising: the rest of the try body (main.py:85-109) is not run,
\* so no call follows the lookup in this iteration.
AfterLookupError == <<>>

\* main.py:83 raising into the handler of main.py:111-114
Phase1LookupFails ==
    /\ InPhase1
    /\ ~Skipped
    /\ \E fetched \in BOOLEAN :
         LET new == FetchCalls(fetched) \o <<LookupCall(FALSE)>>
                        \o AfterLookupError
         IN  /\ FetchOutcome(fetched)
             /\ WithinFailures(new)
             /\ calls' = calls \o new
    /\ error_count' = Counted(error_count)
    /\ i' = i + 1
    /\ UNCHANGED <<pc, srcVars, source_products, j, k, created_count,
                   updated_count, skipped_count, collection_count,
                   product_collections, destVars, warned, clientVars>>

\* main.py:106-107: product_collections[id] = cols; a key already present
\* keeps its place and gets the new value.
Record(pcs, id, cols) ==
    IF cols = <<>> THEN pcs
    ELSE IF \E n \in DOMAIN pcs : pcs[n].id = id
         THEN [n \in DOMAIN pcs |->
                 IF pcs[n].id = id THEN [id |-> id, cols |-> cols] ELSE pcs[n]]
         ELSE Append(pcs, [id |-> id, cols |-> cols])

\* The destination store's product after a PUT of `payload`: the fields sent
\* replace the stored ones, the identifier stays.
StorePut(old, payload) == [id |-> old["id"]] @@ payload @@ old

\* The destination store's product after a POST of `payload`.
StorePost(id, payload) == [id |-> id] @@ payload

\* The source product's identifier in place of the destination's.
existing_id_source(e) == Get(source_products[i], "id", 0)

\* main.py:89: existing_product["id"]
existing_id(e) == dest_products[e]["id"]

\* A handler that re-raises: the failure leaves migrate_products.
AfterWriteError_raise == "failed"

\* main.py:92-94 and 101-103: the handlers log and count and do not re-raise,
\* so the loop of main.py:58 goes on.
AfterWriteError == "phase1"

\* main.py:86-94, 106-109
Phase1Update(written) ==
    LET e == get_product_by_sku(dest_products, sku)
    IN  /\ InPhase1
        /\ ~Skipped
        /\ e # 0
        /\ \E fetched \in BOOLEAN :
             LET payload == _prepare_product_data(product)
                 new == FetchCalls(fetched) \o
                        << LookupCall(TRUE),
                           Call("update_product", "destination", <<i>>,
                                <<existing_id(e), payload>>, written,
                                <<existing_id(e)>>) >>
             IN  /\ FetchOutcome(fetched)
                 /\ WithinFailures(new)
                 /\ calls' = calls \o new
                 /\ source_products' =
                        [source_products EXCEPT ![i] = AfterPrepare(@)]
                 /\ IF written
                    THEN /\ dest_products' =
                               [dest_products EXCEPT ![e] = StorePut(@, payload)]
                         /\ updated_count' = Counted(updated_count)
                         /\ error_count' = error_count
                         /\ product_collections' =
                               Record(product_collections, existing_id(e),
                                      source_collections(fetched))
                         /\ pc' = pc
                    ELSE /\ error_count' = Counted(error_count)
                         /\ pc' = AfterWriteError
                         /\ UNCHANGED <<dest_products, updated_count,
                                        product_collections>>
        /\ i' = i + 1
        /\ UNCHANGED <<srcVars, j, k, created_count, skipped_count,
                       collection_count, dest_collections, dest_collects,
                       next_id, warned, clientVars>>

Phase1UpdateOk == Phase1Update(TRUE)
Phase1UpdateFails == Phase1Update(FALSE)

\* main.py:95-103, 106-109
Phase1Create(written) ==
    LET e == get_product_by_sku(dest_products, sku)
    IN  /\ InPhase1
        /\ ~Skipped
        /\ e = 0
        /\ \E fetched \in BOOLEAN :
             LET payload == _prepare_product_data(product)
                 new == FetchCalls(fetched) \o
                        << LookupCall(TRUE),
                           Call("create_product", "destination", <<i>>,
                                <<payload>>, written, <<next_id>>) >>
             IN  /\ FetchOutcome(fetched)
                 /\ WithinFailures(new)
                 /\ calls' = calls \o new
                 /\ source_products' =
                        [source_products EXCEPT ![i] = AfterPrepare(@)]
                 /\ IF written
                    THEN /\ dest_products' =
                               Append(dest_products, StorePost(next_id, payload))
                         /\ next_id' = next_id + 1
                         /\ created_count' = Counted(created_count)
                         /\ error_count' = error_count
                         /\ product_collections' =
                               Record(product_collections, next_id,
                                      source_collections(fetched))
                         /\ pc' = pc
                    ELSE /\ error_count' = Counted(error_count)
                         /\ pc' = AfterWriteError
                         /\ UNCHANGED <<dest_products, next_id, created_count,
                                        product_collections>>
        /\ i' = i + 1
        /\ UNCHANGED <<srcVars, j, k, updated_count, skipped_count,
                       collection_count, dest_collections, dest_collects,
                       warned, clientVars>>

Phase1CreateOk == Phase1Create(TRUE)
Phase1CreateFails == Phase1Create(FALSE)

\* The collection block entered as soon as a product has been recorded.
Phase1Done_early == product_collections # <<>>

\* main.py:58 exhausted, main.py:117
Phase1Done == i > Len(source_products)

EndPhase1 ==
    /\ pc = "phase1"
    /\ Phase1Done
    /\ pc' = IF product_collections # <<>> THEN "phase2" ELSE "report"
    /\ UNCHANGED <<srcVars, source_products, i, j, k, countVars,
                   product_collections, destVars, warned, calls, clientVars>>

\* The pair and the collection of the current iteration of main.py:124-125.
pair == product_collections[j]
product_id == pair.id
collection == pair.cols[k]

InPhase2 == pc = "phase2" /\ j <= Len(product_collections)

\* The next iteration of the nested loops of main.py:124-125.
NextCollection ==
    IF k < Len(pair.cols)
    THEN k' = k + 1 /\ j' = j
    ELSE k' = 1 /\ j' = j + 1

TitleLookup(ok) ==
    LET d == get_collection_by_title(dest_collections, collection["title"])
    IN  Call("get_collection_by_title", "destination", <<j, k>>,
             <<collection["title"]>>, ok,
             IF d = 0 THEN <<>> ELSE <<dest_collections[d]["id"]>>)

\* main.py:128 raising into the handler of main.py:155-158
Phase2LookupFails ==
    /\ InPhase2
    /\ LET new == <<TitleLookup(FALSE)>>
       IN  /\ WithinFailures(new)
           /\ calls' = calls \o new
    /\ error_count' = Counted(error_count)
    /\ NextCollection
    /\ UNCHANGED <<pc, srcVars, source_products, i, created_count,
                   updated_count, skipped_count, collection_count,
                   product_collections, destVars, warned, clientVars>>

\* main.py:132-136
collection_data ==
    [title |-> collection["title"],
     body_html |-> Get(collection, "body_html", ""),
     published |-> Get(collection, "published", TRUE)]

\* main.py:138 binds collection_data to the first parameter, title, of
\* create_collection(title, description="") (shopify_client.py:327-336).
CreateRequest(data) == [title |-> TitleDict(data), body_html |-> ""]

CreateCall(ok) ==
    LET request == CreateRequest(collection_data)
    IN  Call("create_collection", "destination", <<j, k>>,
             <<request["title"], request["body_html"]>>, ok, <<next_id>>)

AddCall(collection_id, ok) ==
    Call("add_product_to_collection", "destination", <<j, k>>,
         <<product_id, collection_id>>, ok, <<>>)

\* main.py:146-153: the association; its failure is logged (main.py:150-151)
Associate(collection_id, added) ==
    /\ IF added
       THEN /\ dest_collects' = dest_collects \cup {<<product_id, collection_id>>}
            /\ collection_count' = Counted(collection_count)
       ELSE UNCHANGED <<dest_collects, collection_count>>
    /\ NextCollection

\* main.py:128-130, 146-153: the collection exists at the destination
Phase2Existing(added) ==
    LET d == get_collection_by_title(dest_collections, collection["title"])
    IN  /\ InPhase2
        /\ d # 0
        /\ LET new == <<TitleLookup(TRUE), AddCall(dest_collections[d]["id"], added)>>
           IN  /\ WithinFailures(new)
               /\ calls' = calls \o new
        /\ Associate(dest_collections[d]["id"], added)
        /\ UNCHANGED <<pc, srcVars, source_products, i, created_count,
                       updated_count, skipped_count, error_count,
                       product_collections, dest_products, dest_collections,
                       next_id, warned, clientVars>>

Phase2ExistingAdd == Phase2Existing(TRUE)
Phase2ExistingAddFails == Phase2Existing(FALSE)

\* main.py:130-143: create_collection raising; main.py:140-143 logs, advances
\* the progress bar and continues with the next collection
Phase2CreateFails ==
    /\ InPhase2
    /\ get_collection_by_title(dest_collections, collection["title"]) = 0
    /\ LET new == <<TitleLookup(TRUE), CreateCall(FALSE)>>
       IN  /\ WithinFailures(new)
           /\ calls' = calls \o new
    /\ NextCollection
    /\ UNCHANGED <<pc, srcVars, source_products, i, countVars,
                   product_collections, destVars, warned, clientVars>>

\* main.py:130-139, 146-153: the collection is created, then associated
Phase2Created(added) ==
    /\ InPhase2
    /\ get_collection_by_title(dest_collections, collection["title"]) = 0
    /\ LET new == <<TitleLookup(TRUE), CreateCall(TRUE), AddCall(next_id, added)>>
       IN  /\ WithinFailures(new)
           /\ calls' = calls \o new
    /\ dest_collections' =
          Append(dest_collections,
                 [id |-> next_id] @@ CreateRequest(collection_data))
    /\ next_id' = next_id + 1
    /\ IF added
       THEN /\ dest_collects' = dest_collects \cup {<<product_id, next_id>>}
            /\ collection_count' = Counted(collection_count)
       ELSE UNCHANGED <<dest_collects, collection_count>>
    /\ NextCollection
    /\ UNCHANGED <<pc, srcVars, source_products, i, created_count,
                   updated_count, skipped_count, error_count,
                   product_collections, dest_products, warned, clientVars>>

Phase2CreatedAdd == Phase2Created(TRUE)
Phase2CreatedAddFails == Phase2Created(FALSE)

\* main.py:124 exhausted
EndPhase2 ==
    /\ pc = "phase2"
    /\ j > Len(product_collections)
    /\ pc' = "report"
    /\ UNCHANGED <<srcVars, source_products, i, j, k, countVars,
                   product_collections, destVars, warned, calls, clientVars>>

\* main.py:160-168
FinalReport ==
    /\ pc = "report"
    /\ warned' = (error_count > 0)
    /\ pc' = "done"
    /\ UNCHANGED <<srcVars, source_products, i, j, k, countVars,
                   product_collections, destVars, calls, clientVars>>

Next ==
    \/ GetSourceProducts
    \/ GetSourceProductsFails
    \/ Phase1Skip
    \/ Phase1LookupFails
    \/ Phase1UpdateOk
    \/ Phase1UpdateFails
    \/ Phase1CreateOk
    \/ Phase1CreateFails
    \/ EndPhase1
    \/ Phase2LookupFails
    \/ Phase2ExistingAdd
    \/ Phase2ExistingAddFails
    \/ Phase2CreateFails
    \/ Phase2CreatedAdd
    \/ Phase2CreatedAddFails
    \/ EndPhase2
    \/ FinalReport

Spec == Init /\ [][Next]_vars

\* Every awaited call returns or raises, and migrate_products is one
\* sequential flow: a step that can be taken is taken.
FairSpec == Spec /\ WF_vars(Next)

(***************************************************************************)
(* The client on its own: create_product and update_product               *)
(* (shopify_client.py:126-219) applied to a product dict, with the         *)
(* request body they send.                                                 *)
(***************************************************************************)
MaxClientCalls == 2

\* A dict with the keys `keys`, each key with a value of its own.
KeyValue(key) ==
    CASE key = "sku" -> "A"
      [] key = "src" -> "http://img"
      [] key = "alt" -> "front"
      [] key = "name" -> "Size"
      [] key = "title" -> "Shirt"
      [] key = "price" -> "9.99"
      [] key = "tags" -> "new"
      [] key = "requires_shipping" -> TRUE
      [] OTHER -> 7

Dict(keys) == [key \in keys |-> KeyValue(key)]

ClientVariants ==
    { Dict({"sku"}),
      Dict({"sku", "id", "product_id"}),
      Dict({"sku", "price", "title", "id", "product_id", "image_id",
            "inventory_item_id", "old_inventory_quantity", "requires_shipping",
            "admin_graphql_api_id"}),
      Dict({"price", "inventory_item_id"}) }

ClientImages ==
    { Dict({"src"}),
      Dict({"id", "product_id", "src", "alt", "position", "width",
            "admin_graphql_api_id", "variant_ids"}),
      Dict({"id", "alt", "position"}) }

ClientOptions ==
    { Dict({"name"}), Dict({"id", "product_id", "name", "position"}) }

\* The lists of length at most 2 over a set, and <<>> wrapped or not: an
\* absent key is <<>>, a present one <<list>>.
Lists(S) == UNION { [1..n -> S] : n \in 0..2 }
Optional(S) == {<<>>} \cup { <<list>> : list \in Lists(S) }
Field(key, choice) == IF choice = <<>> THEN <<>> ELSE [x \in {key} |-> choice[1]]

ClientInputs ==
    { Dict(top \cup {"title"}) @@ Field("variants", vs) @@ Field("images", im)
        @@ Field("options", op) :
        top \in SUBSET {"id", "admin_graphql_api_id", "tags"},
        vs \in Optional(ClientVariants),
        im \in Optional({ Dict({"src"}), Dict({"id", "alt", "position"}) })
              \cup { <<<<image>>>> : image \in ClientImages },
        op \in Optional({ Dict({"id", "product_id", "name", "position"}) })
              \cup { <<<<Dict({"name"})>>>> } }

InitClient ==
    /\ pc = "client"
    /\ cl_input \in ClientInputs
    /\ cl_sent = <<>>
    /\ returned = <<>>
    /\ src_store = <<>> /\ src_member = <<>> /\ source_products = <<>>
    /\ dest_products = <<>> /\ dest_collections = <<>> /\ dest_collects = {}
    /\ next_id = 50
    /\ i = 1 /\ j = 1 /\ k = 1
    /\ created_count = 0 /\ updated_count = 0 /\ skipped_count = 0
    /\ error_count = 0 /\ collection_count = 0
    /\ product_collections = <<>>
    /\ warned = FALSE
    /\ calls = <<>>

mainVars == <<pc, srcVars, source_products, i, j, k, countVars,
              product_collections, destVars, warned, calls>>

\* shopify_client.py:140-149: the POST of the prepared product
create_product ==
    /\ pc = "client"
    /\ Len(cl_sent) < MaxClientCalls
    /\ cl_sent' = Append(cl_sent, [method |-> "POST", id |-> 0,
                                   product |-> _prepare_product_data(cl_input)])
    /\ cl_input' = AfterPrepare(cl_input)
    /\ UNCHANGED <<mainVars, returned>>

\* shopify_client.py:188-197: the PUT of the prepared product
update_product ==
    /\ pc = "client"
    /\ Len(cl_sent) < MaxClientCalls
    /\ \E id \in {42, 43} :
         cl_sent' = Append(cl_sent, [method |-> "PUT", id |-> id,
                                     product |-> _prepare_product_data(cl_input)])
    /\ cl_input' = AfterPrepare(cl_input)
    /\ UNCHANGED <<mainVars, returned>>

NextClient == create_product \/ update_product

SpecClient == InitClient /\ [][NextClient]_vars

(***************************************************************************)
(* The read operations of ShopifyClient, one call at a time.  A call makes *)
(* one or two HTTP requests; each request has its own outcome, and a 2xx   *)
(* response has a JSON body.  The client keeps no state between calls, so  *)
(* a run is one call; `returned` holds what the store answered and what    *)
(* the call gave back to its caller.                                       *)
(***************************************************************************)
\* A 2xx response, an error status (raise_for_status raises
\* httpx.HTTPStatusError), or no response at all (httpx raises a transport
\* error).
StatusErrors == {"401", "500"}
HttpOutcomes == {"200", "transport"} \cup StatusErrors

\* A credential check that handles HTTP status errors only.
validate_credentials_http_only(shop) ==
    IF shop = "200" THEN "True"
    ELSE IF shop \in StatusErrors THEN "False"
    ELSE "raise"

\* shopify_client.py:51-68: what the call gives back, "raise" for an exception
\* that leaves it.  Lines 60-65 handle the status errors, lines 66-68 every
\* other exception.
validate_credentials(shop) ==
    IF shop = "200" THEN "True"
    ELSE IF shop \in StatusErrors THEN "False"
    ELSE "False"

\* A JSON value that is not an object, as an entry of a listing.
NonDict == [x \in {"<nondict>"} |-> "junk"]
IsDict(e) == "<nondict>" \notin DOMAIN e

\* The entries of a products.json response: two products, a product without
\* variants, an entry without "id" and an entry that is not an object.
ReadEntries ==
    { SrcProduct("one", 1), SrcProduct("two", 2), SrcProduct("nokey", 3),
      SrcProduct("noid", 4), NonDict }

\* The bodies of a 2xx response: JSON without the expected key, or a listing.
Bodies(lists) ==
    { [wellformed |-> FALSE, items |-> <<>>] }
        \cup { [wellformed |-> TRUE, items |-> l] : l \in lists }

ProductBodies == Bodies(UNION { [1..n -> ReadEntries] : n \in 0..MaxProducts })
CollectionBodies == Bodies({ <<>>, SrcCollections })

ReadSkus == {"A", "B", "Z"}

\* What a call left in `returned`.
Returned(op, arg, shop, requested, http, body, result, value) ==
    [op |-> op, arg |-> arg, shop |-> shop,
     valid |-> validate_credentials(shop), requested |-> requested,
     http |-> IF requested THEN http ELSE "none",
     body |-> IF requested /\ http = "200" THEN <<body>> ELSE <<>>,
     result |-> result,
     value |-> IF result = "return" THEN value ELSE <<>>]

\* shopify_client.py:82-112 for get_products and 295-307 for get_collections:
\* the request after the credential check, and the parsing of its response.
\* The caller decides whether the request is made.
Fetched(op, arg, shop, requested, http, body, value) ==
    Returned(op, arg, shop, requested, http, body,
             IF requested /\ http = "200" /\ body.wellformed
             THEN "return" ELSE "raise",
             value)

\* shopify_client.py:84-85: a failed check raises before the request.
GetProductsReturned(op, arg, shop, http, body) ==
    Fetched(op, arg, shop, validate_credentials(shop) = "True", http, body,
            get_products(body.items))

\* shopify_client.py:296: the result of the check is dropped; only an
\* exception leaving the check would keep the request from being made.
GetCollectionsReturned(shop, http, body) ==
    Fetched("get_collections", <<>>, shop,
            validate_credentials(shop) # "raise", http, body, body.items)

\* shopify_client.py:234-236: product.get raises AttributeError on an entry
\* that is not an object, unless an earlier entry matched.
LookupRaises(listing, sku_) ==
    \E n \in DOMAIN listing :
        /\ ~IsDict(listing[n])
        /\ \A m \in 1..(n - 1) :
              IF IsDict(listing[m]) THEN ~HasSku(listing[m], sku_) ELSE TRUE

InitReads ==
    /\ pc = "reads"
    /\ returned = <<>>
    /\ cl_input = <<>> /\ cl_sent = <<>>
    /\ src_store = <<>> /\ src_member = <<>> /\ source_products = <<>>
    /\ dest_products = <<>> /\ dest_collections = <<>> /\ dest_collects = {}
    /\ next_id = 50
    /\ i = 1 /\ j = 1 /\ k = 1
    /\ created_count = 0 /\ updated_count = 0 /\ skipped_count = 0
    /\ error_count = 0 /\ collection_count = 0
    /\ product_collections = <<>>
    /\ warned = FALSE
    /\ calls = <<>>

\* shopify_client.py:44-68
ValidateCredentials ==
    /\ pc = "reads" /\ returned = <<>>
    /\ \E shop \in HttpOutcomes :
         returned' = <<Returned("validate_credentials", <<>>, shop, FALSE,
                                "none", <<>>,
                                IF validate_credentials(shop) = "raise"
                                THEN "raise" ELSE "return", <<>>)>>
    /\ UNCHANGED <<mainVars, cl_input, cl_sent>>

\* shopify_client.py:70-124
GetProducts ==
    /\ pc = "reads" /\ returned = <<>>
    /\ \E shop \in HttpOutcomes, http \in HttpOutcomes, body \in ProductBodies :
         returned' = <<GetProductsReturned("get_products", <<>>, shop, http, body)>>
    /\ UNCHANGED <<mainVars, cl_input, cl_sent>>

\* shopify_client.py:221-243: the listing of get_products, then the scan; the
\* value is the position of the product found, 0 for None.
GetProductBySku ==
    /\ pc = "reads" /\ returned = <<>>
    /\ \E shop \in HttpOutcomes, http \in HttpOutcomes, body \in ProductBodies,
          sku_ \in ReadSkus :
         LET listed == GetProductsReturned("get_product_by_sku", <<sku_>>,
                                           shop, http, body)
         IN  returned' =
               IF listed.result = "raise" THEN <<listed>>
               ELSE IF LookupRaises(listed.value, sku_)
               THEN <<[listed EXCEPT !.result = "raise", !.value = <<>>]>>
               ELSE <<[listed EXCEPT
                          !.value = <<get_product_by_sku(body.items, sku_)>>]>>
    /\ UNCHANGED <<mainVars, cl_input, cl_sent>>

\* shopify_client.py:293-313
GetCollections ==
    /\ pc = "reads" /\ returned = <<>>
    /\ \E shop \in HttpOutcomes, http \in HttpOutcomes, body \in CollectionBodies :
         returned' = <<GetCollectionsReturned(shop, http, body)>>
    /\ UNCHANGED <<mainVars, cl_input, cl_sent>>

NextReads ==
    \/ ValidateCredentials
    \/ GetProducts
    \/ GetProductBySku
    \/ GetCollections

SpecReads == InitReads /\ [][NextReads]_vars


(***************************************************************************)
(* Properties.                                                             *)
(***************************************************************************)
ProductWrites == {"update_product", "create_product"}
Phase1Ops == {"get_product_collections", "get_product_by_sku"} \cup ProductWrites
CollectionOps ==
    {"get_collection_by_title", "create_collection", "add_product_to_collection"}

Running == pc \in {"phase1", "phase2", "report", "done"}

\* The calls of the log that satisfy a condition.
CallsWhere(P(_)) == {n \in DOMAIN calls : P(calls[n])}

\* A listed source product has no variants, or its first variant has no SKU
\* (absent, null or empty).
LacksSku(p) ==
    IF "variants" \notin DOMAIN p THEN TRUE
    ELSE IF Len(p["variants"]) = 0 THEN TRUE
    ELSE IF "sku" \notin DOMAIN p["variants"][1] THEN TRUE
    ELSE p["variants"][1]["sku"] \in {PyNone, ""}

\* C1: a source product without variants or without a first-variant SKU gets
\* no client call at all (no collection fetch, no SKU lookup, no create, no
\* update), and the skipped count is the number of such products among the
\* products processed so far: each adds exactly one.
C1_SkippedWithoutCalls ==
    Running =>
        /\ \A n \in DOMAIN calls :
              calls[n].op \in Phase1Ops => ~LacksSku(src_store[calls[n].item[1]])
        /\ skipped_count =
              Cardinality({m \in 1..(i - 1) : LacksSku(src_store[m])})

\* A run that skipped its first product (empty first SKU, second variant with
\* a SKU) and created its second one.
C1_Witness ==
    /\ pc = "done"
    /\ Len(src_store) = 2
    /\ LacksSku(src_store[1]) /\ Len(Get(src_store[1], "variants", <<>>)) = 2
    /\ ~LacksSku(src_store[2])
    /\ skipped_count = 1
    /\ created_count = 1

\* C2: after a destination lookup that returned a product, the next call is
\* update_product with that product's identifier, and it is the only product
\* write for the source product; after a lookup that returned none, the next
\* call is create_product, the only write for it.  The lookup is made with the
\* first variant's SKU.  The updated and created counts are the numbers of
\* successful update_product and create_product calls.
C2_UpdateIfFoundElseCreate ==
    Running =>
        /\ \A n \in DOMAIN calls :
              (calls[n].op = "get_product_by_sku" /\ calls[n].ok) =>
                  /\ n < Len(calls)
                  /\ calls[n].arg[1] =
                        src_store[calls[n].item[1]]["variants"][1]["sku"]
                  /\ calls[n + 1].item = calls[n].item
                  /\ IF calls[n].res # <<>>
                     THEN /\ calls[n + 1].op = "update_product"
                          /\ calls[n + 1].arg[1] = calls[n].res[1]
                     ELSE calls[n + 1].op = "create_product"
                  /\ \A m \in DOMAIN calls :
                        (calls[m].op \in ProductWrites
                            /\ calls[m].item = calls[n].item) => m = n + 1
        /\ updated_count =
              Cardinality(CallsWhere(LAMBDA c : c.op = "update_product" /\ c.ok))
        /\ created_count =
              Cardinality(CallsWhere(LAMBDA c : c.op = "create_product" /\ c.ok))

\* A run that created a product and then, for a later source product with the
\* same SKU, updated the product it had created.
C2_Witness ==
    /\ pc = "done"
    /\ created_count = 1 /\ updated_count = 1
    /\ \E n, m \in DOMAIN calls :
          /\ n < m
          /\ calls[n].op = "create_product" /\ calls[n].ok
          /\ calls[m].op = "update_product" /\ calls[m].ok
          /\ calls[m].arg[1] = calls[n].res[1]

CountSum == created_count + updated_count + skipped_count + error_count

NoInvalidEntries == \A n \in DOMAIN src_store : "id" \in DOMAIN src_store[n]

FailedTitleLookups ==
    CallsWhere(LAMBDA c : c.op = "get_collection_by_title" /\ ~c.ok)

\* C3 as stated: at the final report the four counts sum to the number of
\* source products.
C3_SumIsN ==
    (pc = "done" /\ NoInvalidEntries) => CountSum = Len(source_products)

\* C3, amended: the four counts sum to the number of products processed when
\* phase 1 ends, and at the final report to the number of source products
\* plus the number of failed get_collection_by_title calls of phase 2.
C3_SumIsNPlusLookupErrors ==
    NoInvalidEntries =>
        /\ pc = "phase1" => CountSum = i - 1
        /\ pc \in {"phase2", "report", "done"} =>
              CountSum = Len(source_products) + Cardinality(FailedTitleLookups)

\* A finished run with a failed product write in phase 1 and a failed
\* collection lookup in phase 2.
C3_Witness ==
    /\ pc = "done"
    /\ NoInvalidEntries
    /\ FailedTitleLookups # {}
    /\ CallsWhere(LAMBDA c : c.op \in ProductWrites /\ ~c.ok) # {}

ListOf(p, key) == IF key \in DOMAIN p THEN p[key] ELSE <<>>

\* C4: the product a create_product or update_product request carries has
\* no top-level key outside the allow-list (so no top-level id), no variant
\* with id, product_id, image_id, inventory_item_id, old_inventory_quantity or
\* requires_shipping, no image with a key other than src and alt, and as many
\* variants as the product handed to the call.
C4_PayloadIsCleaned ==
    \A n \in DOMAIN cl_sent :
        LET p == cl_sent[n].product
        IN  /\ DOMAIN p \subseteq
                  {"title", "body_html", "vendor", "product_type", "handle",
                   "status", "variants", "images", "options"}
            /\ "id" \notin DOMAIN p
            /\ \A v \in DOMAIN ListOf(p, "variants") :
                  DOMAIN p["variants"][v] \cap
                      {"id", "product_id", "image_id", "inventory_item_id",
                       "old_inventory_quantity", "requires_shipping"} = {}
            /\ \A m \in DOMAIN ListOf(p, "images") :
                  DOMAIN p["images"][m] \subseteq {"src", "alt"}
            /\ ("variants" \in DOMAIN p) = ("variants" \in DOMAIN cl_input)
            /\ Len(ListOf(p, "variants")) = Len(ListOf(cl_input, "variants"))

\* An update request for a product that came with a top-level id, two
\* variants and an image with an id: the request carries the two variants and
\* the image.
C4_Witness ==
    /\ cl_sent # <<>>
    /\ cl_sent[1].method = "PUT"
    /\ "id" \in DOMAIN cl_input
    /\ \E m \in DOMAIN ListOf(cl_input, "images") :
          {"id", "src"} \subseteq DOMAIN cl_input["images"][m]
    /\ Len(ListOf(cl_sent[1].product, "variants")) = 2
    /\ Len(ListOf(cl_sent[1].product, "images")) = 1

\* The keys that hold identifiers the store assigns.
IdentifierKeys ==
    {"id", "product_id", "image_id", "inventory_item_id", "admin_graphql_api_id",
     "variant_ids"}

\* C5: no product sent by create_product or update_product carries a
\* server-assigned identifier of the source store, at the top level or in an
\* entry of its variants, images or options.
C5_NoSourceIdentifiers ==
    \A n \in DOMAIN cl_sent :
        LET p == cl_sent[n].product
        IN  /\ DOMAIN p \cap IdentifierKeys = {}
            /\ \A key \in {"variants", "images", "options"} :
                  \A m \in DOMAIN ListOf(p, key) :
                      DOMAIN p[key][m] \cap IdentifierKeys = {}

\* The calls a step adds to the log, and the last of them.
NewCalls == SubSeq(calls', Len(calls) + 1, Len(calls'))
LastNew == NewCalls[Len(NewCalls)]

\* C6: every destination product write precedes every destination collection
\* operation, and the collection phase starts only when the loop over the
\* source products is exhausted.
C6_ProductsBeforeCollections ==
    /\ \A n, m \in DOMAIN calls :
          (calls[n].op \in CollectionOps /\ calls[m].op \in ProductWrites) => m < n
    /\ (pc = "phase2" \/ \E n \in DOMAIN calls : calls[n].op \in CollectionOps) =>
          i = Len(source_products) + 1

\* A finished run whose last source product was written and followed by a
\* collection operation.
C6_Witness ==
    /\ pc = "done"
    /\ Len(source_products) = 2
    /\ \E n, m \in DOMAIN calls :
          /\ n < m
          /\ calls[n].op \in ProductWrites /\ calls[n].ok /\ calls[n].item = <<2>>
          /\ calls[m].op = "add_product_to_collection" /\ calls[m].ok

\* C7: a step in which create_product or update_product fails adds exactly
\* one to the error count, leaves the created and updated counts and the
\* recorded pairs as they were and moves on to the next product of the
\* listing; the run ends phase 1 with every product processed, and from phase
\* 1 it always reaches the final report.
C7_WriteFailureIsCountedAndPassed ==
    /\ [][ (NewCalls # <<>> /\ LastNew.op \in ProductWrites /\ ~LastNew.ok) =>
              /\ error_count' = error_count + 1
              /\ created_count' = created_count
              /\ updated_count' = updated_count
              /\ product_collections' = product_collections
              /\ pc' = "phase1"
              /\ i' = i + 1 ]_vars
    /\ [](pc \in {"phase2", "report", "done"} => i = Len(source_products) + 1)
    /\ [](pc = "phase1" => <>(pc = "done"))

\* A finished run whose first product had collections fetched and a failed
\* write, and whose second product was written: one error, nothing recorded.
C7_Witness ==
    /\ pc = "done"
    /\ error_count = 1
    /\ created_count + updated_count = 1
    /\ \E n, m, f \in DOMAIN calls :
          /\ calls[f].op = "get_product_collections" /\ calls[f].ok
          /\ calls[f].item = <<1>> /\ calls[f].res # <<0>>
          /\ calls[n].op \in ProductWrites /\ ~calls[n].ok /\ calls[n].item = <<1>>
          /\ calls[m].op \in ProductWrites /\ calls[m].ok /\ calls[m].item = <<2>>
    /\ product_collections = <<>>

\* C8: a step in which create_collection fails adds one to the error count,
\* attempts no association and moves on to the next collection.
C8_CreateFailureIsCounted ==
    [][ (NewCalls # <<>> /\ LastNew.op = "create_collection" /\ ~LastNew.ok) =>
           /\ error_count' = error_count + 1
           /\ <<j', k'>> # <<j, k>>
           /\ pc' = pc ]_vars

\* C9: a step in which add_product_to_collection fails adds one to the error
\* count, leaves the collection-assignment count as it was and moves on to
\* the next collection; the final report then warns about errors.
C9_AddFailureIsCounted ==
    /\ [][ (NewCalls # <<>> /\ LastNew.op = "add_product_to_collection"
                /\ ~LastNew.ok) =>
              /\ error_count' = error_count + 1
              /\ collection_count' = collection_count
              /\ <<j', k'>> # <<j, k>>
              /\ pc' = pc ]_vars
    /\ []((pc = "done" /\ \E n \in DOMAIN calls :
                calls[n].op = "add_product_to_collection" /\ ~calls[n].ok)
            => warned)

\* C10: in a step whose destination title lookup returned, create_collection
\* is called if and only if no destination collection has a title equal to
\* the source collection's title; when one has, the step's only other call is
\* add_product_to_collection with the recorded product and the identifier of
\* a collection with that title.
C10_CreateIffNoEqualTitle ==
    [][ (NewCalls # <<>> /\ NewCalls[1].op = "get_collection_by_title"
            /\ NewCalls[1].ok) =>
           LET title == product_collections[j].cols[k]["title"]
               equal == {n \in DOMAIN dest_collections :
                            dest_collections[n]["title"] = title}
               created == \E n \in DOMAIN NewCalls :
                            NewCalls[n].op = "create_collection"
           IN  /\ NewCalls[1].arg = <<title>>
               /\ created <=> (equal = {})
               /\ equal # {} =>
                     /\ Len(NewCalls) = 2
                     /\ NewCalls[2].op = "add_product_to_collection"
                     /\ NewCalls[2].arg[1] = product_collections[j].id
                     /\ \E n \in equal :
                           NewCalls[2].arg[2] = dest_collections[n]["id"] ]_vars

\* A destination that held "Summer" when the run started: the product was
\* added to it for the source collection "Summer", and a collection was
\* created for the source collection "summer".
C10_Witness ==
    /\ dest_collections # <<>>
    /\ dest_collections[1]["title"] = TitleStr("Summer")
    /\ \E n, m \in DOMAIN calls :
          /\ calls[n].op = "get_collection_by_title" /\ calls[n].ok
          /\ calls[n].arg = <<TitleStr("Summer")>>
          /\ calls[n].res = <<dest_collections[1]["id"]>>
          /\ calls[n + 1].op = "add_product_to_collection"
          /\ calls[n + 1].arg[2] = dest_collections[1]["id"]
          /\ calls[m].op = "get_collection_by_title" /\ calls[m].ok
          /\ calls[m].arg = <<TitleStr("summer")>>
          /\ calls[m + 1].op = "create_collection"

\* The source collection a phase-2 call was made for.
CollectionOf(call) == product_collections[call.item[1]].cols[call.item[2]]

CreateCalls == {n \in DOMAIN calls : calls[n].op = "create_collection"}

\* C11: every create_collection request carries the source collection's
\* title string as title and its body_html as body, and no two successful
\* create_collection calls of a run are made for source collections with the
\* same title (the second lookup finds the collection the first one created).
C11_CreateCarriesTitleAndBody ==
    /\ \A n \in CreateCalls :
          calls[n].arg =
              <<CollectionOf(calls[n])["title"],
                Get(CollectionOf(calls[n]), "body_html", "")>>
    /\ \A n, m \in CreateCalls :
          (calls[n].ok /\ calls[m].ok
              /\ CollectionOf(calls[n])["title"] = CollectionOf(calls[m])["title"])
            => n = m

\* The phase-2 iterations made for a destination product and a source
\* collection: each starts with a get_collection_by_title call.
Processed(id, c) ==
    \E n \in DOMAIN calls :
        /\ calls[n].op = "get_collection_by_title"
        /\ product_collections[calls[n].item[1]].id = id
        /\ CollectionOf(calls[n]) = c

\* C12: at the end of a run, for every source product whose collections were
\* fetched (a non-empty set) and whose destination write succeeded, phase 2
\* has processed each of that product's source collections for the written
\* destination product, also when several source products were written to
\* the same destination product.
C12_EveryRecordedCollectionIsProcessed ==
    pc = "done" =>
        \A m \in DOMAIN src_store : \A nf, nw \in DOMAIN calls :
            (/\ calls[nf].op = "get_product_collections"
             /\ calls[nf].item = <<m>> /\ calls[nf].ok
             /\ calls[nw].op \in ProductWrites
             /\ calls[nw].item = <<m>> /\ calls[nw].ok)
            => \A c \in DOMAIN src_member[m] :
                   Processed(calls[nw].res[1], src_member[m][c])

\* C13: a step whose first call is a failed get_product_collections goes on
\* to look the same product up by SKU and, when the lookup returns, to write
\* it with create_product or update_product; it records no collections for
\* phase 2, and the error count grows only by a failure of the lookup or of
\* the write, never by the failed fetch.
C13_FetchFailureIsNotFatal ==
    [][ (/\ NewCalls # <<>>
         /\ NewCalls[1].op = "get_product_collections"
         /\ ~NewCalls[1].ok)
        => /\ Len(NewCalls) >= 2
           /\ NewCalls[2].op = "get_product_by_sku"
           /\ NewCalls[2].item = NewCalls[1].item
           /\ NewCalls[2].ok =>
                 /\ Len(NewCalls) = 3
                 /\ NewCalls[3].op \in ProductWrites
                 /\ NewCalls[3].item = NewCalls[1].item
           /\ product_collections' = product_collections
           /\ error_count' = error_count + (IF LastNew.ok THEN 0 ELSE 1)
           /\ i' = i + 1
           /\ pc' = pc ]_vars

\* A finished run of one product that is in a source collection: the fetch
\* failed, the lookup and the write succeeded, nothing was recorded and no
\* error was counted.
C13_Witness ==
    /\ pc = "done"
    /\ Len(src_store) = 1
    /\ src_member[1] # <<>>
    /\ Len(calls) = 4
    /\ calls[2].op = "get_product_collections" /\ ~calls[2].ok
    /\ calls[3].op = "get_product_by_sku" /\ calls[3].ok
    /\ calls[4].op \in ProductWrites /\ calls[4].ok
    /\ product_collections = <<>>
    /\ error_count = 0
    /\ created_count + updated_count = 1

\* C14: a run is terminated by a failure exactly when its first call, the
\* listing of the source products, failed: the run then ends at once, with
\* that call as its only call, so no write was issued to the destination;
\* a failure of any other client call never terminates the run.
C14_OnlyListingFailureIsFatal ==
    /\ (calls # <<>> /\ ~calls[1].ok) => pc = "failed"
    /\ pc = "failed" =>
          /\ Len(calls) = 1
          /\ calls[1].op = "get_products" /\ ~calls[1].ok
          /\ dest_collects = {}
          /\ created_count + updated_count + collection_count = 0
    /\ (\E n \in DOMAIN calls : n > 1 /\ ~calls[n].ok) => Running

\* The listing of a source store with a migratable product failed, with
\* products present at the destination.
C14_Witness ==
    /\ pc = "failed"
    /\ \E m \in DOMAIN src_store : ~LacksSku(src_store[m])
    /\ dest_products # <<>>

\* C15: validate_credentials never raises: wherever it is called, it gives
\* True when the shop.json request succeeded and False on every failure of
\* it, an error status (401 included) or a transport error.
C15_ValidateNeverRaises ==
    \A n \in DOMAIN returned :
        /\ returned[n].valid = (IF returned[n].shop = "200" THEN "True" ELSE "False")
        /\ returned[n].op = "validate_credentials" => returned[n].result = "return"

\* validate_credentials was called and the request met a transport error.
C15_Witness ==
    /\ returned # <<>>
    /\ returned[1].op = "validate_credentials"
    /\ returned[1].shop = "transport"
    /\ returned[1].valid = "False"

\* An entry of a products.json listing is an object with an identifier.
ValidEntry(e) == IF IsDict(e) THEN "id" \in DOMAIN e ELSE FALSE

\* C16: the list get_products returns holds the valid entries of the
\* response, in the order of the response, and nothing else: no entry that
\* is not an object or has no identifier.
C16_InvalidEntriesAreSkipped ==
    \A n \in DOMAIN returned :
        (returned[n].op = "get_products" /\ returned[n].result = "return") =>
            returned[n].value = SelectSeq(returned[n].body[1].items, ValidEntry)

\* A listed product has a variant, at any position, whose SKU is the one
\* looked for.
AnyVariantHasSku(p, s) ==
    /\ IsDict(p)
    /\ "variants" \in DOMAIN p
    /\ \E v \in DOMAIN p["variants"] :
          /\ "sku" \in DOMAIN p["variants"][v]
          /\ p["variants"][v]["sku"] = s

\* C17: a get_product_by_sku call that returns gives the first product of
\* the listing, in listing order, that has any variant with the SKU looked
\* for, and None when no listed product has such a variant.
C17_FirstProductWithAnyVariant ==
    \A n \in DOMAIN returned :
        (returned[n].op = "get_product_by_sku" /\ returned[n].result = "return") =>
            LET listing == returned[n].body[1].items
                found == returned[n].value[1]
                s == returned[n].arg[1]
            IN  IF \E m \in DOMAIN listing : AnyVariantHasSku(listing[m], s)
                THEN /\ found \in DOMAIN listing
                     /\ AnyVariantHasSku(listing[found], s)
                     /\ \A m \in 1..(found - 1) : ~AnyVariantHasSku(listing[m], s)
                ELSE found = 0

\* A lookup that passed a product without the SKU and returned the second
\* product of the listing, whose second variant has the SKU.
C17_Witness ==
    /\ returned # <<>>
    /\ returned[1].op = "get_product_by_sku"
    /\ returned[1].result = "return"
    /\ returned[1].value = <<2>>
    /\ LET p == returned[1].body[1].items[2]
       IN  /\ Len(p["variants"]) = 2
           /\ p["variants"][1]["sku"] # returned[1].arg[1]
           /\ p["variants"][2]["sku"] = returned[1].arg[1]

\* C18: whenever the credential check of a get_collections or get_products
\* call gave False, the call raises and returns no list; get_products then
\* raises before the products request is made.
C18_InvalidCredentialsFailTheListing ==
    \A n \in DOMAIN returned :
        returned[n].valid = "False" =>
            /\ returned[n].op = "get_collections" => returned[n].result = "raise"
            /\ returned[n].op = "get_products" =>
                  returned[n].result = "raise" /\ ~returned[n].requested

\* C19: a step in which the destination lookup by SKU fails makes no call
\* after the lookup, so neither create_product nor update_product is invoked
\* for the product; the error count grows by one, nothing is recorded for
\* phase 2, the destination's products are untouched and the loop goes on
\* with the next source product.
C19_LookupFailureIsCountedAndPassed ==
    [][ (\E n \in DOMAIN NewCalls :
            NewCalls[n].op = "get_product_by_sku" /\ ~NewCalls[n].ok)
        => /\ LastNew.op = "get_product_by_sku"
           /\ \A n \in DOMAIN NewCalls : NewCalls[n].op \notin ProductWrites
           /\ error_count' = error_count + 1
           /\ product_collections' = product_collections
           /\ dest_products' = dest_products
           /\ created_count' = created_count /\ updated_count' = updated_count
           /\ i' = i + 1
           /\ pc' = pc ]_vars

\* A finished run of two products: the lookup of the first failed, after its
\* collections were fetched, and no write was made for it; the second was
\* written.
C19_Witness ==
    /\ pc = "done"
    /\ Len(src_store) = 2
    /\ src_member[1] # <<>>
    /\ \E n \in DOMAIN calls :
          /\ calls[n].op = "get_product_by_sku" /\ ~calls[n].ok
          /\ calls[n].item = <<1>>
    /\ \A n \in DOMAIN calls :
          calls[n].op \in ProductWrites => calls[n].item = <<2>> /\ calls[n].ok
    /\ created_count + updated_count = 1
    /\ error_count = 1

====
